---- MODULE Spec2Model ----
(***************************************************************************)
(* juliet: a 2-way serial message client.                                  *)
(*                                                                         *)
(* The model covers the wire codec (Message.unpack and the content         *)
(* decoders), the event lists, the message broker, the loopback transport  *)
(* (CommLoop) and the serial transport (RadioComm) with its transmit and   *)
(* receive worker threads sharing one device under one lock.               *)
(*                                                                         *)
(* Byte strings and text are sequences of one-character strings.  A byte   *)
(* that is not valid UTF-8 is written "xFF".  An optional value (None in   *)
(* the source) is a record [present, val].                                 *)
(***************************************************************************)
EXTENDS Integers, Sequences, FiniteSets, TLC

\* ------------------------------------------------------------------ bounds

\* how many buffers the application hands to RadioComm.send with success
MaxSend == 2
\* how many handlers an event list of the loopback transport holds
MaxHandlers == 2
\* how many times the application calls RadioComm.close
MaxClose == 2
\* how long the content of a message that is packed is
MaxContent == 2
\* how long a part handed to checksum is
MaxPart == 2
\* how long the file name a FileMessage is constructed with is
MaxName == 3

\* --------------------------------------------------------------- characters

Digits == {"0", "1", "2", "3", "4", "5", "6", "7", "8", "9"}

HexLetters == {"a", "b", "c", "d", "e", "f", "A", "B", "C", "D", "E", "F"}

Letters ==
    {"a", "b", "c", "d", "e", "f", "g", "h", "i", "j", "k", "l", "m",
     "n", "o", "p", "q", "r", "s", "t", "u", "v", "w", "x", "y", "z",
     "A", "B", "C", "D", "E", "F", "G", "H", "I", "J", "K", "L", "M",
     "N", "O", "P", "Q", "R", "S", "T", "U", "V", "W", "X", "Y", "Z"}

\* [a-fA-F0-9]
HexChars == Digits \cup HexLetters

\* [a-zA-Z0-9]
AlnumChars == Digits \cup Letters

\* [a-zA-Z0-9~/=+_$@#*&%!|-]
SenderChars ==
    AlnumChars \cup {"~", "/", "=", "+", "_", "$", "@", "#", "*", "&", "%", "!", "|", "-"}

\* the byte that str(data, 'utf-8') cannot decode
BadByte == "xFF"

NewLine == "\n"

\* ------------------------------------------------------------------ helpers

None == [present |-> FALSE, val |-> <<>>]

Some(v) == [present |-> TRUE, val |-> v]

\* a regex group that matched nothing is None
Group(s) == IF Len(s) = 0 THEN None ELSE Some(s)

AllIn(s, chars) == \A i \in 1..Len(s) : s[i] \in chars

IsPrefix(s, t) == Len(s) <= Len(t) /\ SubSeq(t, 1, Len(s)) = s

\* the k-th smallest element of a finite set of integers
Nth(S, k) == CHOOSE i \in S : Cardinality({j \in S : j < i}) = k - 1

SetMax(S) == CHOOSE i \in S : \A j \in S : j <= i

\* the value of a string of decimal digits
RECURSIVE DecVal(_)
DecVal(s) ==
    IF Len(s) = 0 THEN 0
    ELSE LET d == CHOOSE n \in 0..9 : ToString(n) = s[Len(s)]
         IN  10 * DecVal(SubSeq(s, 1, Len(s) - 1)) + d

HexDigit(c) ==
    CASE c \in Digits -> (CHOOSE n \in 0..9 : ToString(n) = c)
      [] c \in {"a", "A"} -> 10
      [] c \in {"b", "B"} -> 11
      [] c \in {"c", "C"} -> 12
      [] c \in {"d", "D"} -> 13
      [] c \in {"e", "E"} -> 14
      [] c \in {"f", "F"} -> 15

\* int(s, 16) of a string of hex digits
RECURSIVE HexVal(_)
HexVal(s) ==
    IF Len(s) = 0 THEN 0
    ELSE 16 * HexVal(SubSeq(s, 1, Len(s) - 1)) + HexDigit(s[Len(s)])

\* s.replace(old, new) for a two-character old and one-character new
RECURSIVE Replace2(_, _, _)
Replace2(s, old, new) ==
    IF Len(s) < 2 THEN s
    ELSE IF SubSeq(s, 1, 2) = old
         THEN new \o Replace2(SubSeq(s, 3, Len(s)), old, new)
         ELSE <<s[1]>> \o Replace2(Tail(s), old, new)

\* the positions of character c in s
Positions(s, c) == {i \in 1..Len(s) : s[i] = c}

\* -------------------------------------------------------------- timestamps

TimeLen == 14

IsLeap(y) == (y % 4 = 0 /\ y % 100 # 0) \/ y % 400 = 0

DaysIn(y, m) ==
    CASE m \in {4, 6, 9, 11} -> 30
      [] m = 2 -> (IF IsLeap(y) THEN 29 ELSE 28)
      [] OTHER -> 31

\* datetime.strptime(string, '%Y%m%d%H%M%S'): "ok", or the exception raised.
\* None is not a string; fourteen digits must name a real date and time.
parse_timestamp(string) ==
    IF ~string.present THEN "TypeError"
    ELSE LET s  == string.val
             y  == DecVal(SubSeq(s, 1, 4))
             mo == DecVal(SubSeq(s, 5, 6))
             d  == DecVal(SubSeq(s, 7, 8))
             h  == DecVal(SubSeq(s, 9, 10))
             mi == DecVal(SubSeq(s, 11, 12))
             se == DecVal(SubSeq(s, 13, 14))
         IN  IF /\ y >= 1
                /\ mo \in 1..12
                /\ d >= 1 /\ d <= DaysIn(y, mo)
                /\ h <= 23 /\ mi <= 59 /\ se <= 59
             THEN "ok"
             ELSE "ValueError"

\* a datetime in UTC, accurate to the second
DateTime(y, mo, d, h, mi, se) ==
    [year |-> y, month |-> mo, day |-> d, hour |-> h, minute |-> mi, second |-> se]

\* datetime.now(tz=utc) truncated to the second: the clock when a Message is
\* constructed without a timestamp
Now == DateTime(2026, 11, 2, 15, 37, 28)

\* the decimal digits of n, at least width of them, zero padded
RECURSIVE Padded(_, _)
Padded(n, width) ==
    IF width <= 1 /\ n < 10 THEN <<ToString(n)>>
    ELSE Padded(n \div 10, width - 1) \o <<ToString(n % 10)>>

\* tstamp.strftime('%Y%m%d%H%M%S')
format_timestamp(tstamp) ==
    Padded(tstamp.year, 4) \o Padded(tstamp.month, 2) \o Padded(tstamp.day, 2)
        \o Padded(tstamp.hour, 2) \o Padded(tstamp.minute, 2) \o Padded(tstamp.second, 2)

\* ---------------------------------------------------------------- checksum

\* the characters of code 32 to 126, in order ("x60" stands for the backquote)
AsciiPrintable ==
    <<" ", "!", "\"", "#", "$", "%", "&", "'", "(", ")", "*", "+",
      ",", "-", ".", "/", "0", "1", "2", "3", "4", "5", "6", "7",
      "8", "9", ":", ";", "<", "=", ">", "?", "@", "A", "B", "C",
      "D", "E", "F", "G", "H", "I", "J", "K", "L", "M", "N", "O",
      "P", "Q", "R", "S", "T", "U", "V", "W", "X", "Y", "Z", "[",
      "\\", "]", "^", "_", "x60", "a", "b", "c", "d", "e", "f", "g",
      "h", "i", "j", "k", "l", "m", "n", "o", "p", "q", "r", "s",
      "t", "u", "v", "w", "x", "y", "z", "{", "|", "}", "~">>

\* the byte bytes(c, 'utf-8') of a character (the text of the model is ASCII)
Ord(c) ==
    IF c = NewLine THEN 10
    ELSE 31 + (CHOOSE i \in 1..Len(AsciiPrintable) : AsciiPrintable[i] = c)

\* a ^ b on naturals
RECURSIVE Xor(_, _)
Xor(a, b) ==
    IF a = 0 THEN b
    ELSE IF b = 0 THEN a
    ELSE 2 * Xor(a \div 2, b \div 2) + ((a + b) % 2)

\* crc16's arguments crc and poly, by default
CrcInit == 65535

CrcPoly == 4129

\* crc16's inner loop: the n low bits of cur_byte, lowest first
RECURSIVE CrcBits(_, _, _)
CrcBits(crc, cur_byte, n) ==
    IF n = 0 THEN crc
    ELSE CrcBits(IF crc % 2 # cur_byte % 2
                 THEN Xor(crc \div 2, CrcPoly)
                 ELSE crc \div 2,
                 cur_byte \div 2, n - 1)

\* crc16's outer loop over the bytes of data
RECURSIVE CrcBytes(_, _)
CrcBytes(crc, data) ==
    IF Len(data) = 0 THEN crc
    ELSE LET next == CrcBits(crc, Ord(Head(data)), 8)
         IN  IF next >= 0 THEN CrcBytes(next, Tail(data)) ELSE next

\* the complement and byte swap that end crc16
CrcFinal(crc) ==
    LET c == 65535 - (crc % 65536)
    IN  ((c * 256) + ((c \div 256) % 256)) % 65536

\* crc16(data, crc)
crc16(data, crc) == CrcFinal(CrcBytes(crc, data))

\* checksum(*parts): parts is a sequence of optional strings; each part that is
\* not None goes through crc16, which starts from the result of the part before
RECURSIVE ChecksumFrom(_, _)
ChecksumFrom(crc, parts) ==
    IF Len(parts) = 0 THEN crc
    ELSE IF ~Head(parts).present THEN ChecksumFrom(crc, Tail(parts))
    ELSE ChecksumFrom(crc16(Head(parts).val, crc), Tail(parts))

checksum(parts) == ChecksumFrom(CrcInit, parts)

\* format(n, 'X'), with at least width digits
HexDigits == <<"0", "1", "2", "3", "4", "5", "6", "7", "8", "9", "A", "B", "C", "D", "E", "F">>

RECURSIVE FormatHex(_, _)
FormatHex(n, width) ==
    IF width <= 1 /\ n < 16 THEN <<HexDigits[n + 1]>>
    ELSE FormatHex(n \div 16, width - 1) \o <<HexDigits[(n % 16) + 1]>>

\* ------------------------------------------------------------- compression

\* The text the model compresses is written over PlainAlphabet.  zlib.compress
\* followed by base64.b64encode is an injective map into the base64 alphabet;
\* the model keeps that: a fixed header (a zlib stream armors to "eJ..."), one
\* armored character per character of the text, and the "=" padding.
PlainAlphabet == <<"h", "i", ":", "|", "\\", " ", ".", "<">>

ArmorAlphabet == <<"z", "L", "y", "A", "Q", "T", "s", "g">>

Base64Chars == AlnumChars \cup {"+", "/", "="}

ZHeader == <<"e", "J">>

ZPadding == <<"=">>

ArmorChar(c) == ArmorAlphabet[CHOOSE i \in 1..Len(PlainAlphabet) : PlainAlphabet[i] = c]

PlainChar(c) == PlainAlphabet[CHOOSE i \in 1..Len(ArmorAlphabet) : ArmorAlphabet[i] = c]

ArmorSet == {ArmorAlphabet[i] : i \in 1..Len(ArmorAlphabet)}

\* CompressedMessage.compress
compress(content) ==
    ZHeader \o [i \in 1..Len(content) |-> ArmorChar(content[i])] \o ZPadding

\* b64decode drops the characters outside the base64 alphabet before decoding
RECURSIVE Filter(_, _)
Filter(s, chars) ==
    IF Len(s) = 0 THEN <<>>
    ELSE IF s[1] \in chars THEN <<s[1]>> \o Filter(Tail(s), chars)
         ELSE Filter(Tail(s), chars)

\* whether CompressedMessage.decompress returns (else binascii.Error or zlib.error)
CanDecompress(content) ==
    LET b == Filter(content, Base64Chars)
        n == Len(b)
    IN  /\ n >= Len(ZHeader) + Len(ZPadding)
        /\ SubSeq(b, 1, Len(ZHeader)) = ZHeader
        /\ SubSeq(b, n - Len(ZPadding) + 1, n) = ZPadding
        /\ AllIn(SubSeq(b, Len(ZHeader) + 1, n - Len(ZPadding)), ArmorSet)

\* CompressedMessage.decompress, where it returns
decompress(content) ==
    LET b    == Filter(content, Base64Chars)
        body == SubSeq(b, Len(ZHeader) + 1, Len(b) - Len(ZPadding))
    IN  [i \in 1..Len(body) |-> PlainChar(body[i])]

\* ---------------------------------------------------------------- filenames

safe_filename_chars == {".", "-", "_", " "}

RECURSIVE LStrip(_)
LStrip(s) == IF Len(s) > 0 /\ s[1] = " " THEN LStrip(Tail(s)) ELSE s

RECURSIVE RStrip(_)
RStrip(s) ==
    IF Len(s) > 0 /\ s[Len(s)] = " " THEN RStrip(SubSeq(s, 1, Len(s) - 1)) ELSE s

\* str.strip() on a string whose only whitespace is the space
Strip(s) == RStrip(LStrip(s))

make_safe_filename(unsafe) ==
    IF ~unsafe.present \/ Len(unsafe.val) = 0 THEN None
    ELSE Some(Strip(Filter(unsafe.val, AlnumChars \cup safe_filename_chars)))

\* ----------------------------------------------------------------- messages

\* a Message object: the class (variant) and its attributes
MakeMsg(variant, content, sender, signature, filename, mimetype) ==
    [variant   |-> variant,
     content   |-> content,
     sender    |-> sender,
     signature |-> signature,
     filename  |-> filename,
     mimetype  |-> mimetype,
     timestamp |-> Now]

\* Message.is_valid ("confirm the integrity of the message"): returns None
is_valid(msg) == None

NoMsg == MakeMsg("none", <<>>, None, None, None, None)

Returned(msg) == [kind |-> "msg", exc |-> "none", msg |-> msg]

ReturnedNone == [kind |-> "none", exc |-> "none", msg |-> NoMsg]

Raised(exc) == [kind |-> "raise", exc |-> exc, msg |-> NoMsg]

\* TextMessage.unpack_content
TextUnpackContent(msg) ==
    Returned([msg EXCEPT !.content = Replace2(msg.content, <<"\\", ":">>, <<":">>)])

\* CompressedTextMessage.unpack_content
CompressedTextUnpackContent(msg) ==
    IF CanDecompress(msg.content)
    THEN Returned([msg EXCEPT !.content = decompress(msg.content)])
    ELSE Raised("zlib.error")

\* FileMessage.unpack_content
FileUnpackContent(msg) ==
    LET c     == msg.content
        pipes == Positions(c, "|")
    IN  IF Cardinality(pipes) < 2 THEN Raised("ValueError")
        ELSE LET p1 == Nth(pipes, 1)
                 p2 == Nth(pipes, 2)
                 filename   == SubSeq(c, 1, p1 - 1)
                 mimetype   == SubSeq(c, p1 + 1, p2 - 1)
                 compressed == SubSeq(c, p2 + 1, Len(c))
             IN  IF CanDecompress(compressed)
                 THEN Returned([msg EXCEPT
                                  !.filename = make_safe_filename(Some(filename)),
                                  !.mimetype = Group(mimetype),
                                  !.content  = decompress(compressed)])
                 ELSE Raised("zlib.error")

\* ------------------------------------------------------------ frame grammar

\* packed_msg_re.match(text): the groups, or matched = FALSE.  The groups ver,
\* crc, sender and time cannot hold a colon, so they are the text between the
\* first colons; sig cannot hold one either, so msg (greedy) runs to the last
\* colon.  "$" matches at the end and before one trailing newline.
packed_msg_match(text) ==
    LET n      == IF Len(text) > 0 /\ text[Len(text)] = NewLine
                  THEN Len(text) - 1 ELSE Len(text)
        colons == Positions(text, ":")
        nomatch == [matched |-> FALSE, ver |-> <<>>, crc |-> <<>>, sender |-> None,
                    time |-> None, msg |-> <<>>, sig |-> None]
    IN  IF \/ n < 4
           \/ SubSeq(text, 1, 2) # <<">", ">">>
           \/ SubSeq(text, n - 1, n) # <<"<", "<">>
           \/ Cardinality(colons) < 5
        THEN nomatch
        ELSE LET c1 == Nth(colons, 1)
                 c2 == Nth(colons, 2)
                 c3 == Nth(colons, 3)
                 c4 == Nth(colons, 4)
                 cl == SetMax(colons)
                 ver    == SubSeq(text, 3, c1 - 1)
                 crc    == SubSeq(text, c1 + 1, c2 - 1)
                 sender == SubSeq(text, c2 + 1, c3 - 1)
                 time   == SubSeq(text, c3 + 1, c4 - 1)
                 msg    == SubSeq(text, c4 + 1, cl - 1)
                 sig    == SubSeq(text, cl + 1, n - 2)
             IN  IF /\ Len(ver) > 0 /\ AllIn(ver, HexChars)
                    /\ Len(crc) > 0 /\ AllIn(crc, AlnumChars)
                    /\ AllIn(sender, SenderChars)
                    /\ (Len(time) = 0 \/ (Len(time) = TimeLen /\ AllIn(time, Digits)))
                    /\ Len(msg) > 0 /\ NewLine \notin {msg[i] : i \in 1..Len(msg)}
                    /\ cl < n - 1
                    /\ AllIn(sig, AlnumChars)
                 THEN [matched |-> TRUE, ver |-> ver, crc |-> crc,
                       sender |-> Group(sender), time |-> Group(time),
                       msg |-> msg, sig |-> Group(sig)]
                 ELSE nomatch

\* the versions Message.unpack dispatches on, and the class of each
KnownVersions == {0, 1, 3}

VariantOf(version) ==
    CASE version = 0 -> "TextMessage"
      [] version = 1 -> "CompressedTextMessage"
      [] version = 3 -> "FileMessage"

unpack_content(msg) ==
    CASE msg.variant = "TextMessage" -> TextUnpackContent(msg)
      [] msg.variant = "CompressedTextMessage" -> CompressedTextUnpackContent(msg)
      [] msg.variant = "FileMessage" -> FileUnpackContent(msg)

\* Message.unpack(data): a message, None, or the exception that leaves it
unpack(data) ==
    IF ~data.present \/ Len(data.val) = 0 THEN ReturnedNone
    ELSE IF BadByte \in {data.val[i] : i \in 1..Len(data.val)} THEN ReturnedNone
    ELSE LET match == packed_msg_match(data.val)
         IN  IF ~match.matched THEN ReturnedNone
             ELSE IF HexVal(match.ver) \notin KnownVersions
                  THEN Raised("unsupported version")
             ELSE IF ~AllIn(match.crc, HexChars) THEN Raised("ValueError")
             ELSE IF parse_timestamp(match.time) # "ok"
                  THEN Raised(parse_timestamp(match.time))
             ELSE unpack_content(MakeMsg(VariantOf(HexVal(match.ver)), match.msg,
                                         match.sender, match.sig, None, None))

\* ------------------------------------------------------------- encoding

\* Message.__init__(content, sender, signature, timestamp) of the class
\* `variant`: a timestamp that is not given is the clock's
Message(variant, content, sender, signature, timestamp) ==
    [MakeMsg(variant, content, sender, signature, None, None) EXCEPT
       !.timestamp = IF timestamp.present THEN timestamp.val ELSE Now]

\* mimetypes.guess_type(filename)[0]: no name of the model has an extension
\* with a type of its own
guess_type(filename) == None

OctetStream ==
    <<"a", "p", "p", "l", "i", "c", "a", "t", "i", "o", "n", "/",
      "o", "c", "t", "e", "t", "-", "s", "t", "r", "e", "a", "m">>

\* x or ''
OrEmpty(x) == IF x.present THEN x.val ELSE <<>>

\* FileMessage.__init__(content, filename, mimetype, sender, signature, timestamp)
FileMessage(content, filename, mimetype, sender, signature, timestamp) ==
    [Message("FileMessage", content, sender, signature, timestamp) EXCEPT
       !.filename = make_safe_filename(filename),
       !.mimetype = IF ~mimetype.present /\ filename.present
                    THEN (IF Len(OrEmpty(guess_type(filename.val))) > 0
                          THEN guess_type(filename.val) ELSE Some(OctetStream))
                    ELSE mimetype]

\* the class attribute `version`
VersionOf(variant) ==
    CASE variant = "TextMessage" -> 0
      [] variant = "CompressedTextMessage" -> 1
      [] variant = "FileMessage" -> 3

\* s.replace(':', '\\:')
RECURSIVE EscapeColons(_)
EscapeColons(s) ==
    IF Len(s) = 0 THEN <<>>
    ELSE IF s[1] = ":" THEN <<"\\", ":">> \o EscapeColons(Tail(s))
         ELSE <<s[1]>> \o EscapeColons(Tail(s))

\* TextMessage.pack_content
TextPackContent(msg) == EscapeColons(msg.content)

\* CompressedTextMessage.pack_content
CompressedTextPackContent(msg) == compress(msg.content)

\* FileMessage.pack_content
FilePackContent(msg) ==
    OrEmpty(make_safe_filename(msg.filename)) \o <<"|">> \o OrEmpty(msg.mimetype)
        \o <<"|">> \o compress(msg.content)

pack_content(msg) ==
    CASE msg.variant = "TextMessage" -> TextPackContent(msg)
      [] msg.variant = "CompressedTextMessage" -> CompressedTextPackContent(msg)
      [] msg.variant = "FileMessage" -> FilePackContent(msg)

\* Message.pack
pack(msg) ==
    LET sender  == OrEmpty(msg.sender)
        tstamp  == format_timestamp(msg.timestamp)
        sig     == OrEmpty(msg.signature)
        content == pack_content(msg)
        crc     == checksum(<<Some(sender), Some(tstamp), Some(content), Some(sig)>>)
    IN  <<">", ">">> \o FormatHex(VersionOf(msg.variant), 1) \o <<":">>
            \o FormatHex(crc, 4) \o <<":">> \o sender \o <<":">> \o tstamp \o <<":">>
            \o content \o <<":">> \o sig \o <<"<", "<">>

\* ------------------------------------------------- what the device delivers

\* a line as a peer puts it on the wire: the fields between the frame markers
WireFrame(ver, crc, sender, time, msg, sig) ==
    <<">", ">">> \o ver \o <<":">> \o crc \o <<":">> \o sender \o <<":">> \o time
        \o <<":">> \o msg \o <<":">> \o sig \o <<"<", "<">>

Stamp == <<"2", "0", "2", "0", "0", "1", "0", "1", "0", "0", "0", "0", "0", "0">>

BadStamp == <<"2", "0", "2", "0", "1", "3", "0", "1", "0", "0", "0", "0", "0", "0">>

Crc == <<"A", "B", "C", "D">>

Bob == <<"b", "o", "b">>

Hi == <<"h", "i">>

LineText == WireFrame(<<"0">>, Crc, Bob, Stamp, <<"h", "\\", ":", "i">>, <<>>)

LineCompressed == WireFrame(<<"1">>, Crc, <<>>, Stamp, compress(Hi), <<"s">>)

LineFile ==
    WireFrame(<<"3">>, Crc, Bob, Stamp, <<".", ".", "|", "|">> \o compress(Hi), <<>>)

LineVersion7 == WireFrame(<<"7">>, Crc, Bob, Stamp, Hi, <<>>)

LineVersion2 == WireFrame(<<"2">>, Crc, Bob, Stamp, <<"b", "|", "h">>, <<>>)

LineNoTime == WireFrame(<<"0">>, Crc, Bob, <<>>, Hi, <<>>)

LineBadDate == WireFrame(<<"0">>, Crc, Bob, BadStamp, Hi, <<>>)

LineNonHexCrc == WireFrame(<<"0">>, <<"Z", "Z">>, Bob, Stamp, Hi, <<>>)

LineBadCompressed == WireFrame(<<"1">>, Crc, Bob, Stamp, Hi, <<>>)

LineFileNoPipes == WireFrame(<<"3">>, Crc, Bob, Stamp, compress(Hi), <<>>)

LineNotUtf8 == <<BadByte, BadByte>>

LineNoStart == Tail(Tail(LineText))

LineNoEnd == SubSeq(LineText, 1, Len(LineText) - 2)

LineNonHexVersion == WireFrame(<<"G">>, Crc, Bob, Stamp, Hi, <<>>)

LineTruncated == SubSeq(LineText, 1, 12)

\* frames of a known version that decode
GoodLines == {LineText, LineCompressed, LineFile}

\* frames that match the grammar with a version tag outside the known set
UnsupportedLines == {LineVersion7, LineVersion2}

\* byte sequences that are not a decodable frame of a known version
MalformedLines ==
    {LineNotUtf8, LineNoStart, LineNoEnd, LineNonHexVersion, LineTruncated,
     LineNoTime, LineBadDate, LineNonHexCrc, LineBadCompressed, LineFileNoPipes}

DeviceLines == GoodLines \cup UnsupportedLines \cup MalformedLines

\* the buffer the application sends itself (the other buffer on the queue is
\* the frame it publishes)
Payloads == {<<"h", "i">>}

\* what RadioComm.send and CommLoop.send are called with: bytes, b'' or None
SendInputs == {Some(d) : d \in Payloads} \cup {Some(<<>>), None}

\* what CommLoop.send is called with: a payload, a frame, b'' or None
LoopInputs == SendInputs \cup {Some(LineText), Some(LineVersion7), Some(LineNoTime)}

\* Message.unpack on every byte string the model hands to the broker, worked
\* out once
Unpacked ==
    [data \in {Some(l) : l \in DeviceLines \cup {<<>>}} \cup LoopInputs |-> unpack(data)]

\* ------------------------------------------------------------------- state

VARIABLES
    workers_active,  \* RadioComm.workers_active
    comm_open,       \* whether RadioComm.comm (the serial port) is open
    comm_lock,       \* RadioComm.comm_lock: "free", or the thread holding it
    xmit_queue,      \* RadioComm.xmit_queue
    xmit_pc,         \* where the thread running _xmit_worker is
    xmit_data,       \* _xmit_worker's local data
    xmit_exc,        \* the exception that ended the transmit thread, or "none"
    recv_pc,         \* where the thread running _recv_worker is
    recv_data,       \* _recv_worker's local data
    recv_exc,        \* the exception that ended the receive thread, or "none"
    close_pc,        \* where the caller of RadioComm.close is
    send_ret,        \* what the last call of RadioComm.send returned
    sent,            \* every buffer put on xmit_queue, in the order of the puts
    device_out,      \* every buffer written to the device, in order
    xmit_events,     \* the data of every on_xmit notification of the radio
    delivered,       \* the calls of the broker's subscribers for the line just read
    loop_on_xmit,    \* CommLoop.on_xmit: the handlers, in list order
    loop_on_recv,    \* CommLoop.on_recv
    loop_pc,         \* where the caller of CommLoop.send is
    loop_data,       \* the data CommLoop.send was called with
    loop_ev,         \* which of send's two notifications is being raised
    loop_idx,        \* Event.__call__: the position of its for loop
    loop_ret,        \* how the last CommLoop.send ended
    loop_fired,      \* the events raised by the current send, in order
    loop_log,        \* the handler calls made by the current send, in order
    loop_delivered,  \* the calls of the broker's subscribers by the current send
    loop_snapshot,   \* the handlers of the event being raised, when it was raised
    loop_unsubscribed, \* the handlers taken off that event while it is raised
                     \* (both are dropped when send is left)
    close_calls,     \* how many times RadioComm.close has been called
    published,       \* the last MessageBroker.publish: what send returned to it,
                     \* and what it returned
    xmit_slept,      \* whether _xmit_worker has slept since its last write
    codec_pc,        \* a message through pack and unpack: the step
    codec_msg,       \* the Message that is packed
    codec_data,      \* what pack returned
    codec_unpacked,  \* what unpack made of it
    crc_pc,          \* a call of checksum: the step
    crc_parts,       \* checksum's arguments
    crc_sum,         \* what checksum returned
    file_pc,         \* a FileMessage with a file name: the step
    file_unsafe,     \* the file name the FileMessage is constructed with
    file_msg,        \* the FileMessage constructed
    file_unpacked    \* what unpack made of its packed frame

radio_vars ==
    <<workers_active, comm_open, comm_lock, xmit_queue, xmit_pc, xmit_data,
      xmit_exc, recv_pc, recv_data, recv_exc, close_pc, send_ret, sent,
      device_out, xmit_events, delivered, close_calls, published, xmit_slept>>

codec_vars == <<codec_pc, codec_msg, codec_data, codec_unpacked>>

crc_vars == <<crc_pc, crc_parts, crc_sum>>

file_vars == <<file_pc, file_unsafe, file_msg, file_unpacked>>

\* the codec's functions taken alone
pure_vars == <<codec_vars, crc_vars, file_vars>>

loop_vars ==
    <<loop_on_xmit, loop_on_recv, loop_pc, loop_data, loop_ev, loop_idx, loop_ret,
      loop_fired, loop_log, loop_delivered, loop_snapshot, loop_unsubscribed>>

vars == <<radio_vars, loop_vars, pure_vars>>

\* a join that does not wait for the thread
JoinedAtOnce(pc) == TRUE

\* Thread.join returns once the thread's target returned or an exception left it
Joined(pc) == pc \in {"done", "dead"}

\* a loop condition that does not read the stop flag
KeepWorkingForever(active) == TRUE

\* the condition of both workers' while loops
KeepWorking(active) == active

\* RadioComm.__init__ (and MessageBroker.__init__ on the radio): the port is
\* open, the queue empty, both worker threads started
RadioInit ==
    /\ workers_active = TRUE
    /\ comm_open = TRUE
    /\ comm_lock = "free"
    /\ xmit_queue = <<>>
    /\ xmit_pc = "check"
    /\ xmit_data = <<>>
    /\ xmit_exc = "none"
    /\ recv_pc = "check"
    /\ recv_data = <<>>
    /\ recv_exc = "none"
    /\ close_pc = "idle"
    /\ send_ret = "none"
    /\ sent = <<>>
    /\ device_out = <<>>
    /\ xmit_events = <<>>
    /\ delivered = <<>>
    /\ close_calls = 0
    /\ published = [send_ret |-> "none", ret |-> "none"]
    /\ xmit_slept = TRUE

\* CommLoop.__init__ and MessageBroker.__init__ on the loopback transport: the
\* broker's _radio_recv is the one handler of on_recv
LoopInit ==
    /\ loop_on_xmit = <<>>
    /\ loop_on_recv = <<"_radio_recv">>
    /\ loop_pc = "idle"
    /\ loop_data = None
    /\ loop_ev = 1
    /\ loop_idx = 1
    /\ loop_ret = "none"
    /\ loop_fired = <<>>
    /\ loop_log = <<>>
    /\ loop_delivered = <<>>
    /\ loop_snapshot = <<>>
    /\ loop_unsubscribed = {}

\* no message is in the codec, no checksum being taken, no file message made
CodecIdle ==
    /\ codec_pc = "none"
    /\ codec_msg = NoMsg
    /\ codec_data = <<>>
    /\ codec_unpacked = ReturnedNone

CrcIdle ==
    /\ crc_pc = "none"
    /\ crc_parts = <<>>
    /\ crc_sum = CrcInit

FileIdle ==
    /\ file_pc = "none"
    /\ file_unsafe = None
    /\ file_msg = NoMsg
    /\ file_unpacked = ReturnedNone

Init == RadioInit /\ LoopInit /\ CodecIdle /\ CrcIdle /\ FileIdle

\* ------------------------------------------------------------ the device

\* serial.Serial.write and readline: they return, or raise SerialException;
\* on a closed port they raise portNotOpenError
DeviceResults == {"ok", "SerialException"}

DeviceResult(open, outcome) == IF open THEN outcome ELSE "PortNotOpenError"

\* an acquire that does not wait for the holder
LockFreeAlways(lock) == TRUE

\* threading.Lock: acquire blocks until the lock is free
LockFree(lock) == lock = "free"

\* a critical section left without releasing the lock
ReleasedNever(lock) == lock

\* leaving a with block releases the lock
Released(lock) == "free"

\* queue.Queue: put at the tail, get from the head
QueuePut(q, data) == Append(q, data)

\* a queue that hands out its newest element
QueueGetNewest(q) == q[Len(q)]

QueueGet(q) == Head(q)

\* ------------------------------------------------------- RadioComm.send

\* send(data): an empty or absent payload returns False; anything else is
\* queued and True returned
RadioSendCall(data) ==
    /\ IF ~data.present \/ Len(data.val) = 0
       THEN /\ send_ret' = "False"
            /\ UNCHANGED <<xmit_queue, sent>>
       ELSE /\ Len(sent) < MaxSend
            /\ xmit_queue' = QueuePut(xmit_queue, data.val)
            /\ sent' = Append(sent, data.val)
            /\ send_ret' = "True"
    /\ UNCHANGED <<workers_active, comm_open, comm_lock, xmit_pc, xmit_data, xmit_exc,
                   recv_pc, recv_data, recv_exc, close_pc, device_out, xmit_events,
                   delivered>>
    /\ UNCHANGED <<close_calls, xmit_slept>>
    /\ UNCHANGED <<loop_vars, pure_vars>>

\* the application calls send
RadioSend(data) == RadioSendCall(data) /\ UNCHANGED published

Send == \E data \in SendInputs : RadioSend(data)

\* --------------------------------------------------- MessageBroker.publish

\* the message the application publishes
PublishMsg == Message("TextMessage", Hi, None, None, None)

\* data = msg.pack(), worked out once
PublishData == pack(PublishMsg)

\* publish(msg): data = msg.pack(); self.radio.send(data), whose result is
\* dropped; publish returns None
Publish ==
    /\ RadioSendCall(Some(PublishData))
    /\ published' = [send_ret |-> send_ret', ret |-> "None"]

\* ------------------------------------------------------ RadioComm.close

\* a close that flips the flag
ToggleWorkers(active) == ~active

\* self.workers_active = False
StopWorkers(active) == FALSE

\* close() is called, for the first time or after an earlier close() returned:
\* workers_active = False
CloseBegin ==
    /\ close_pc \in {"idle", "closed"}
    /\ close_calls < MaxClose
    /\ close_calls' = close_calls + 1
    /\ workers_active' = StopWorkers(workers_active)
    /\ close_pc' = "join_xmit"
    /\ UNCHANGED <<comm_open, comm_lock, xmit_queue, xmit_pc, xmit_data, xmit_exc,
                   recv_pc, recv_data, recv_exc, send_ret, sent, device_out,
                   xmit_events, delivered>>
    /\ UNCHANGED <<published, xmit_slept>>
    /\ UNCHANGED <<loop_vars, pure_vars>>

\* self.xmit_thread.join()
CloseJoinXmit ==
    /\ close_pc = "join_xmit"
    /\ Joined(xmit_pc)
    /\ close_pc' = "join_recv"
    /\ UNCHANGED <<workers_active, comm_open, comm_lock, xmit_queue, xmit_pc, xmit_data,
                   xmit_exc, recv_pc, recv_data, recv_exc, send_ret, sent, device_out,
                   xmit_events, delivered>>
    /\ UNCHANGED <<close_calls, published, xmit_slept>>
    /\ UNCHANGED <<loop_vars, pure_vars>>

\* self.recv_thread.join()
CloseJoinRecv ==
    /\ close_pc = "join_recv"
    /\ Joined(recv_pc)
    /\ close_pc' = "close_port"
    /\ UNCHANGED <<workers_active, comm_open, comm_lock, xmit_queue, xmit_pc, xmit_data,
                   xmit_exc, recv_pc, recv_data, recv_exc, send_ret, sent, device_out,
                   xmit_events, delivered>>
    /\ UNCHANGED <<close_calls, published, xmit_slept>>
    /\ UNCHANGED <<loop_vars, pure_vars>>

\* self.comm.close(), which leaves a port that is closed already as it is
ClosePort ==
    /\ close_pc = "close_port"
    /\ comm_open' = FALSE
    /\ close_pc' = "closed"
    /\ UNCHANGED <<workers_active, comm_lock, xmit_queue, xmit_pc, xmit_data, xmit_exc,
                   recv_pc, recv_data, recv_exc, send_ret, sent, device_out,
                   xmit_events, delivered>>
    /\ UNCHANGED <<close_calls, published, xmit_slept>>
    /\ UNCHANGED <<loop_vars, pure_vars>>

\* ------------------------------------------------ RadioComm._xmit_worker

\* while self.workers_active
XmitCheck ==
    /\ xmit_pc = "check"
    /\ xmit_pc' = IF KeepWorking(workers_active) THEN "get" ELSE "done"
    /\ xmit_data' = IF KeepWorking(workers_active) THEN xmit_data ELSE <<>>
    /\ UNCHANGED <<workers_active, comm_open, comm_lock, xmit_queue, xmit_exc,
                   recv_pc, recv_data, recv_exc, close_pc, send_ret, sent, device_out,
                   xmit_events, delivered>>
    /\ UNCHANGED <<close_calls, published, xmit_slept>>
    /\ UNCHANGED <<loop_vars, pure_vars>>

\* data = self.xmit_queue.get(False); queue.Empty goes to the sleep
XmitGet ==
    /\ xmit_pc = "get"
    /\ IF Len(xmit_queue) = 0
       THEN /\ xmit_pc' = "sleep"
            /\ UNCHANGED <<xmit_queue, xmit_data>>
       ELSE /\ xmit_data' = QueueGet(xmit_queue)
            /\ xmit_queue' = Tail(xmit_queue)
            /\ xmit_pc' = "lock"
    /\ UNCHANGED <<workers_active, comm_open, comm_lock, xmit_exc, recv_pc, recv_data,
                   recv_exc, close_pc, send_ret, sent, device_out, xmit_events, delivered>>
    /\ UNCHANGED <<close_calls, published, xmit_slept>>
    /\ UNCHANGED <<loop_vars, pure_vars>>

\* with self.comm_lock: (entering)
XmitLock ==
    /\ xmit_pc = "lock"
    /\ LockFree(comm_lock)
    /\ comm_lock' = "xmit"
    /\ xmit_pc' = "write"
    /\ UNCHANGED <<workers_active, comm_open, xmit_queue, xmit_data, xmit_exc, recv_pc,
                   recv_data, recv_exc, close_pc, send_ret, sent, device_out,
                   xmit_events, delivered>>
    /\ UNCHANGED <<close_calls, published, xmit_slept>>
    /\ UNCHANGED <<loop_vars, pure_vars>>

\* self.comm.write(data), and leaving the with block, which releases the lock
\* whether write returned or raised; an exception ends the thread
XmitWrite ==
    /\ xmit_pc = "write"
    /\ \E outcome \in DeviceResults :
         LET res == DeviceResult(comm_open, outcome)
         IN  IF res = "ok"
             THEN /\ device_out' = Append(device_out, xmit_data)
                  /\ xmit_pc' = "notify"
                  /\ xmit_slept' = FALSE
                  /\ UNCHANGED <<xmit_exc, xmit_data>>
             ELSE /\ xmit_pc' = "dead"
                  /\ xmit_exc' = res
                  /\ xmit_data' = <<>>
                  /\ UNCHANGED <<device_out, xmit_slept>>
    /\ comm_lock' = Released(comm_lock)
    /\ UNCHANGED <<workers_active, comm_open, xmit_queue, recv_pc, recv_data,
                   recv_exc, close_pc, send_ret, sent, xmit_events, delivered>>
    /\ UNCHANGED <<close_calls, published>>
    /\ UNCHANGED <<loop_vars, pure_vars>>

\* a worker that goes for the next buffer at once after a transmission
AfterXmitNoSleep == "check"

\* after on_xmit the worker leaves the try block and comes to time.sleep(1)
AfterXmit == "sleep"

\* self.on_xmit(self, data)
XmitNotify ==
    /\ xmit_pc = "notify"
    /\ xmit_events' = Append(xmit_events, xmit_data)
    /\ xmit_pc' = AfterXmit
    /\ UNCHANGED <<workers_active, comm_open, comm_lock, xmit_queue, xmit_data, xmit_exc,
                   recv_pc, recv_data, recv_exc, close_pc, send_ret, sent, device_out,
                   delivered>>
    /\ UNCHANGED <<close_calls, published, xmit_slept>>
    /\ UNCHANGED <<loop_vars, pure_vars>>

\* time.sleep(1)
XmitSleep ==
    /\ xmit_pc = "sleep"
    /\ xmit_pc' = "check"
    /\ xmit_slept' = TRUE
    /\ UNCHANGED <<workers_active, comm_open, comm_lock, xmit_queue, xmit_data, xmit_exc,
                   recv_pc, recv_data, recv_exc, close_pc, send_ret, sent, device_out,
                   xmit_events, delivered>>
    /\ UNCHANGED <<close_calls, published>>
    /\ UNCHANGED <<loop_vars, pure_vars>>

XmitStep == XmitCheck \/ XmitGet \/ XmitLock \/ XmitWrite \/ XmitNotify \/ XmitSleep

\* ------------------------------------------------ MessageBroker._radio_recv

\* one call of the broker's subscribers: subscribe(self, msg)
Delivery(msg) == [source |-> "MessageBroker", msg |-> msg]

\* ------------------------------------------------ RadioComm._recv_worker

\* while self.workers_active: data = None
RecvCheck ==
    /\ recv_pc = "check"
    /\ recv_pc' = IF KeepWorking(workers_active) THEN "lock" ELSE "done"
    /\ recv_data' = <<>>
    /\ delivered' = <<>>
    /\ UNCHANGED <<workers_active, comm_open, comm_lock, xmit_queue, xmit_pc, xmit_data,
                   xmit_exc, recv_exc, close_pc, send_ret, sent, device_out,
                   xmit_events>>
    /\ UNCHANGED <<close_calls, published, xmit_slept>>
    /\ UNCHANGED <<loop_vars, pure_vars>>

\* with self.comm_lock: (entering)
RecvLock ==
    /\ recv_pc = "lock"
    /\ LockFree(comm_lock)
    /\ comm_lock' = "recv"
    /\ recv_pc' = "read"
    /\ UNCHANGED <<workers_active, comm_open, xmit_queue, xmit_pc, xmit_data, xmit_exc,
                   recv_data, recv_exc, close_pc, send_ret, sent, device_out,
                   xmit_events, delivered>>
    /\ UNCHANGED <<close_calls, published, xmit_slept>>
    /\ UNCHANGED <<loop_vars, pure_vars>>

\* what readline may return: nothing within the timeout, or a line
Readable == {<<>>} \cup DeviceLines

\* data = self.comm.readline(), and leaving the with block, which releases the
\* lock whether readline returned or raised; an exception ends the thread
RecvRead ==
    /\ recv_pc = "read"
    /\ \E outcome \in DeviceResults, line \in Readable :
         LET res == DeviceResult(comm_open, outcome)
         IN  IF res = "ok"
             THEN /\ recv_data' = line
                  /\ recv_pc' = "notify"
                  /\ UNCHANGED recv_exc
             ELSE /\ recv_pc' = "dead"
                  /\ recv_exc' = res
                  /\ UNCHANGED recv_data
    /\ comm_lock' = Released(comm_lock)
    /\ UNCHANGED <<workers_active, comm_open, xmit_queue, xmit_pc, xmit_data, xmit_exc,
                   close_pc, send_ret, sent, device_out, xmit_events, delivered>>
    /\ UNCHANGED <<close_calls, published, xmit_slept>>
    /\ UNCHANGED <<loop_vars, pure_vars>>

\* if data and len(data) > 0: self.on_recv(self, data), whose one handler is
\* MessageBroker._radio_recv: unpack, and subscribe(self, msg) for a message.
\* Nothing catches what unpack raises: it leaves the handler, the event and
\* the worker, and ends the thread.
RecvNotify ==
    /\ recv_pc = "notify"
    /\ LET r == Unpacked[Some(recv_data)]
       IN  CASE r.kind = "raise" ->
                  /\ recv_pc' = "dead"
                  /\ recv_exc' = r.exc
                  /\ recv_data' = <<>>
                  /\ UNCHANGED delivered
             [] r.kind = "msg" ->
                  /\ delivered' = Append(delivered, Delivery(r.msg))
                  /\ recv_pc' = "yield"
                  /\ UNCHANGED <<recv_exc, recv_data>>
             [] OTHER ->
                  /\ recv_pc' = "yield"
                  /\ UNCHANGED <<recv_exc, recv_data, delivered>>
    /\ UNCHANGED <<workers_active, comm_open, comm_lock, xmit_queue, xmit_pc, xmit_data,
                   xmit_exc, close_pc, send_ret, sent, device_out, xmit_events>>
    /\ UNCHANGED <<close_calls, published, xmit_slept>>
    /\ UNCHANGED <<loop_vars, pure_vars>>

\* time.sleep(0)
RecvYield ==
    /\ recv_pc = "yield"
    /\ recv_pc' = "check"
    /\ UNCHANGED <<workers_active, comm_open, comm_lock, xmit_queue, xmit_pc, xmit_data,
                   xmit_exc, recv_data, recv_exc, close_pc, send_ret, sent, device_out,
                   xmit_events, delivered>>
    /\ UNCHANGED <<close_calls, published, xmit_slept>>
    /\ UNCHANGED <<loop_vars, pure_vars>>

RecvStep == RecvCheck \/ RecvLock \/ RecvRead \/ RecvNotify \/ RecvYield

\* the caller of close(), once it has called it
CloseStep == CloseJoinXmit \/ CloseJoinRecv \/ ClosePort

\* ------------------------------------------------------- specifications

Next == Send \/ Publish \/ CloseBegin \/ CloseStep \/ XmitStep \/ RecvStep

Spec == Init /\ [][Next]_vars

\* The worker threads are scheduled, readline returns within its timeout, sleep
\* returns, and a caller inside close() goes on: every step of a thread that
\* stays possible is taken.  Nothing obliges the application to call send or
\* close.
FairSpec == Spec /\ WF_vars(XmitStep) /\ WF_vars(RecvStep) /\ WF_vars(CloseStep)

\* The same, and a thread blocked in comm_lock.acquire gets the lock when it
\* is released again and again: the receive worker yields (time.sleep(0))
\* after every release, so that the transmit worker blocked on the lock runs.
LockFairSpec == FairSpec /\ SF_vars(XmitLock)

\* ------------------------------------------------------------- CommLoop

\* the handlers the application subscribes to the loopback transport's events
AppHandlers == {"h1", "h2"}

LoopEvents == {"on_xmit", "on_recv"}

\* a send that raises on_recv first
SendOrderSwapped == <<"on_recv", "on_xmit">>

\* CommLoop.send raises on_xmit, then on_recv
SendOrder == <<"on_xmit", "on_recv">>

\* the handler list of an event of the loopback transport
LoopHandlers(event) == IF event = "on_xmit" THEN loop_on_xmit ELSE loop_on_recv

\* one call of a handler: handler(radio, data)
Call(event, handler, data) == [event |-> event, handler |-> handler, data |-> data]

\* s.remove(x): s without the first x
RemoveFirst(s, x) ==
    LET i == CHOOSE k \in 1..Len(s) : s[k] = x /\ \A j \in 1..(k - 1) : s[j] # x
    IN  SubSeq(s, 1, i - 1) \o SubSeq(s, i + 1, Len(s))

\* Event.__iadd__: event += handler
LoopSubscribe ==
    \E event \in LoopEvents, h \in AppHandlers :
      /\ Len(LoopHandlers(event)) < MaxHandlers
      /\ IF event = "on_xmit"
         THEN loop_on_xmit' = Append(loop_on_xmit, h) /\ UNCHANGED loop_on_recv
         ELSE loop_on_recv' = Append(loop_on_recv, h) /\ UNCHANGED loop_on_xmit
      /\ UNCHANGED <<loop_pc, loop_data, loop_ev, loop_idx, loop_ret, loop_fired,
                     loop_log, loop_delivered, loop_snapshot, loop_unsubscribed>>
      /\ UNCHANGED <<radio_vars, pure_vars>>

\* Event.__isub__: event -= handler, for a handler that is on the list
LoopUnsubscribe ==
    \E event \in LoopEvents, h \in AppHandlers :
      /\ \E k \in 1..Len(LoopHandlers(event)) : LoopHandlers(event)[k] = h
      /\ IF event = "on_xmit"
         THEN loop_on_xmit' = RemoveFirst(loop_on_xmit, h) /\ UNCHANGED loop_on_recv
         ELSE loop_on_recv' = RemoveFirst(loop_on_recv, h) /\ UNCHANGED loop_on_xmit
      /\ loop_unsubscribed' = IF loop_pc = "dispatch" /\ event = SendOrder[loop_ev]
                              THEN loop_unsubscribed \cup {h}
                              ELSE loop_unsubscribed
      /\ UNCHANGED <<loop_pc, loop_data, loop_ev, loop_idx, loop_ret, loop_fired,
                     loop_log, loop_delivered, loop_snapshot>>
      /\ UNCHANGED <<radio_vars, pure_vars>>

\* CommLoop.send(data) is called and raises its first event
LoopSend ==
    \E data \in LoopInputs :
      /\ loop_pc = "idle"
      /\ loop_pc' = "dispatch"
      /\ loop_data' = data
      /\ loop_ev' = 1
      /\ loop_idx' = 1
      /\ loop_ret' = "none"
      /\ loop_fired' = <<SendOrder[1]>>
      /\ loop_log' = <<>>
      /\ loop_delivered' = <<>>
      /\ loop_snapshot' = LoopHandlers(SendOrder[1])
      /\ loop_unsubscribed' = {}
      /\ UNCHANGED <<loop_on_xmit, loop_on_recv>>
      /\ UNCHANGED <<radio_vars, pure_vars>>

\* Event.__call__: the next handler of the list is called and returns or raises.
\* An application handler returns; MessageBroker._radio_recv unpacks the data,
\* calls the broker's subscriber (Console.recv_msg) for a message, and is left
\* by whatever unpack raises, which then leaves Event.__call__ and send.
LoopCallHandler ==
    /\ loop_pc = "dispatch"
    /\ loop_idx <= Len(LoopHandlers(SendOrder[loop_ev]))
    /\ LET event == SendOrder[loop_ev]
           h     == LoopHandlers(event)[loop_idx]
           r     == IF h = "_radio_recv" THEN Unpacked[loop_data] ELSE ReturnedNone
       IN  /\ loop_log' = Append(loop_log, Call(event, h, loop_data))
           /\ loop_delivered' = IF r.kind = "msg"
                                THEN Append(loop_delivered, Delivery(r.msg))
                                ELSE loop_delivered
           /\ IF r.kind = "raise"
              THEN /\ loop_pc' = "idle"
                   /\ loop_ret' = r.exc
                   /\ loop_snapshot' = <<>>
                   /\ loop_unsubscribed' = {}
                   /\ UNCHANGED loop_idx
              ELSE /\ loop_idx' = loop_idx + 1
                   /\ UNCHANGED <<loop_pc, loop_ret, loop_snapshot, loop_unsubscribed>>
    /\ UNCHANGED <<loop_on_xmit, loop_on_recv, loop_data, loop_ev, loop_fired>>
    /\ UNCHANGED <<radio_vars, pure_vars>>

\* Event.__call__ returns: send raises its next event, or returns
LoopEventDone ==
    /\ loop_pc = "dispatch"
    /\ loop_idx > Len(LoopHandlers(SendOrder[loop_ev]))
    /\ IF loop_ev < Len(SendOrder)
       THEN /\ loop_ev' = loop_ev + 1
            /\ loop_idx' = 1
            /\ loop_fired' = Append(loop_fired, SendOrder[loop_ev + 1])
            /\ loop_snapshot' = LoopHandlers(SendOrder[loop_ev + 1])
            /\ loop_unsubscribed' = {}
            /\ UNCHANGED <<loop_pc, loop_ret>>
       ELSE /\ loop_pc' = "idle"
            /\ loop_ret' = "returned"
            /\ loop_snapshot' = <<>>
            /\ loop_unsubscribed' = {}
            /\ UNCHANGED <<loop_ev, loop_idx, loop_fired>>
    /\ UNCHANGED <<loop_on_xmit, loop_on_recv, loop_data, loop_log, loop_delivered>>
    /\ UNCHANGED <<radio_vars, pure_vars>>

LoopNext == LoopSubscribe \/ LoopUnsubscribe \/ LoopSend \/ LoopCallHandler \/ LoopEventDone

\* the loopback transport with the broker on it
LoopSpec == Init /\ [][LoopNext]_vars

\* ------------------------------------------------- pack and unpack, alone

\* the strings over chars of length at most n
Strings(chars, n) == UNION {[1..k -> chars] : k \in 0..n}

\* what a message's content is written with
ContentChars == {"h", ":", "\\"}

Variants == {"TextMessage", "CompressedTextMessage", "FileMessage"}

\* a timestamp other than the clock's
Earlier == DateTime(2020, 1, 1, 0, 0, 0)

\* the constructor of each class, called with content, sender and timestamp
Construct(variant, content, sender, timestamp) ==
    IF variant = "FileMessage"
    THEN FileMessage(content, None, None, sender, None, timestamp)
    ELSE Message(variant, content, sender, None, timestamp)

\* the messages packed: every class, every content, with and without a sender,
\* with the clock's timestamp and with a given one
Messages ==
    {Construct(variant, content, sender, timestamp) :
        variant \in Variants,
        content \in Strings(ContentChars, MaxContent),
        sender \in {None, Some(Bob)},
        timestamp \in {None, Some(Earlier)}}

CodecInit ==
    /\ RadioInit /\ LoopInit /\ CrcIdle /\ FileIdle
    /\ codec_pc = "pack"
    /\ codec_msg \in Messages
    /\ codec_data = <<>>
    /\ codec_unpacked = ReturnedNone

\* data = msg.pack()
CodecPack ==
    /\ codec_pc = "pack"
    /\ codec_data' = pack(codec_msg)
    /\ codec_pc' = "unpack"
    /\ UNCHANGED <<codec_msg, codec_unpacked>>
    /\ UNCHANGED <<radio_vars, loop_vars, crc_vars, file_vars>>

\* Message.unpack(data)
CodecUnpack ==
    /\ codec_pc = "unpack"
    /\ codec_unpacked' = unpack(Some(codec_data))
    /\ codec_pc' = "done"
    /\ UNCHANGED <<codec_msg, codec_data>>
    /\ UNCHANGED <<radio_vars, loop_vars, crc_vars, file_vars>>

CodecNext == CodecPack \/ CodecUnpack

CodecSpec == CodecInit /\ [][CodecNext]_vars

\* ---------------------------------------------------------- checksum, alone

\* what a part of a checksum is written with
PartChars == {"1", "2"}

\* an argument of checksum: None, or a string (which may be empty)
Parts == {None} \cup {Some(part) : part \in Strings(PartChars, MaxPart)}

ChecksumInit ==
    /\ RadioInit /\ LoopInit /\ CodecIdle /\ FileIdle
    /\ crc_pc = "call"
    /\ crc_parts \in {<<first, second>> : first \in Parts, second \in Parts}
    /\ crc_sum = CrcInit

\* crc = checksum(*parts)
ChecksumCall ==
    /\ crc_pc = "call"
    /\ crc_sum' = checksum(crc_parts)
    /\ crc_pc' = "done"
    /\ UNCHANGED crc_parts
    /\ UNCHANGED <<radio_vars, loop_vars, codec_vars, file_vars>>

ChecksumNext == ChecksumCall

ChecksumSpec == ChecksumInit /\ [][ChecksumNext]_vars

\* ------------------------------------------------------ file names, alone

\* what a file name is written with: a letter, the dot, the path separator
\* and the space
NameChars == {"e", ".", "/", " "}

\* the filename argument of FileMessage: None, or a string (which may be empty)
Filenames == {None} \cup {Some(name) : name \in Strings(NameChars, MaxName)}

FileInit ==
    /\ RadioInit /\ LoopInit /\ CodecIdle /\ CrcIdle
    /\ file_pc = "construct"
    /\ file_unsafe \in Filenames
    /\ file_msg = NoMsg
    /\ file_unpacked = ReturnedNone

\* msg = FileMessage(content='hi', filename=unsafe)
FileConstruct ==
    /\ file_pc = "construct"
    /\ file_msg' = FileMessage(Hi, file_unsafe, None, None, None, None)
    /\ file_pc' = "unpack"
    /\ UNCHANGED <<file_unsafe, file_unpacked>>
    /\ UNCHANGED <<radio_vars, loop_vars, codec_vars, crc_vars>>

\* Message.unpack(msg.pack())
FileUnpack ==
    /\ file_pc = "unpack"
    /\ file_unpacked' = unpack(Some(pack(file_msg)))
    /\ file_pc' = "done"
    /\ UNCHANGED <<file_unsafe, file_msg>>
    /\ UNCHANGED <<radio_vars, loop_vars, codec_vars, crc_vars>>

FileNext == FileConstruct \/ FileUnpack

FileSpec == FileInit /\ [][FileNext]_vars

\* ============================================================ properties

Terminated(pc) == pc \in {"done", "dead"}

InDeviceIO(thread) ==
    IF thread = "xmit" THEN xmit_pc = "write" ELSE recv_pc = "read"

\* C1: at most one of the two workers is inside a device read or write, and a
\* worker inside a device read or write holds comm_lock.
C1_DeviceIOExclusive ==
    /\ ~(InDeviceIO("xmit") /\ InDeviceIO("recv"))
    /\ \A t \in {"xmit", "recv"} : InDeviceIO(t) => comm_lock = t

\* the transmit worker writes while the receive worker waits for the lock
C1_Witness == InDeviceIO("xmit") /\ recv_pc = "lock" /\ comm_lock = "xmit"

\* C2: the port is closed only when both workers have terminated, and no
\* worker reads or writes a closed port.
C2_ClosedOnlyAfterWorkers ==
    /\ ~comm_open => Terminated(xmit_pc) /\ Terminated(recv_pc)
    /\ ~comm_open => ~InDeviceIO("xmit") /\ ~InDeviceIO("recv")
    /\ xmit_exc # "PortNotOpenError" /\ recv_exc # "PortNotOpenError"

\* close() has closed the port with a buffer still queued
C2_Witness ==
    /\ ~comm_open /\ close_pc = "closed"
    /\ xmit_pc = "done" /\ recv_pc = "done"
    /\ Len(xmit_queue) > 0

AllStopped == Terminated(xmit_pc) /\ Terminated(recv_pc) /\ ~comm_open

\* C3: once close() is called both workers terminate and the port is closed,
\* whatever is sent meanwhile; and with the stop flag set no worker begins
\* another iteration.
C3_CloseTerminates ==
    /\ (close_pc # "idle") ~> AllStopped
    /\ [][~workers_active =>
            /\ (xmit_pc = "check" => xmit_pc' \in {"check", "done"})
            /\ (recv_pc = "check" => recv_pc' \in {"check", "done"})]_vars

\* close() has returned although every buffer sent is still on the queue
C3_Witness ==
    /\ close_pc = "closed" /\ AllStopped
    /\ Len(sent) = MaxSend /\ xmit_queue = sent

\* C4: a frame with a version tag outside {0,1,3} does not end the receive
\* loop (the frames after it are still decoded and delivered).
C4_UnsupportedVersionKeepsReceiving ==
    ~(recv_pc = "dead" /\ recv_exc = "unsupported version")

DecodeErrors == {"TypeError", "ValueError", "zlib.error"}

\* C5: a byte sequence that is not a decodable frame makes unpack return None:
\* no exception leaves unpack, none ends the receive loop, and no message is
\* delivered for it.
C5_MalformedIsNoMessage ==
    /\ recv_exc \notin DecodeErrors
    /\ (recv_pc = "notify" /\ recv_data \in MalformedLines)
         => Unpacked[Some(recv_data)] = ReturnedNone

\* C6: a device I/O error in a worker puts the transport into the stopped
\* state both workers exit from.
C6_DeviceFaultStopsTransport ==
    (xmit_exc = "SerialException" \/ recv_exc = "SerialException") => ~workers_active

\* C7: once close() has returned, send() queues nothing and does not return
\* True.
C7_SendAfterCloseFails ==
    [][close_pc = "closed" =>
         /\ xmit_queue' = xmit_queue
         /\ sent' = sent
         /\ (send_ret' # send_ret => send_ret' # "True")]_vars

\* what the transmit worker has taken off the queue and not yet written
InFlight == IF xmit_pc \in {"lock", "write"} THEN <<xmit_data>> ELSE <<>>

\* C8: the buffers written to the device are a prefix of the buffers queued, in
\* the order send() queued them; until a write fails nothing is lost between
\* the queue and the device; and each on_xmit notification carries the buffer
\* just written, before the next one is written.
C8_QueueIsFifo ==
    /\ IsPrefix(device_out, sent)
    /\ xmit_exc = "none" => sent = device_out \o InFlight \o xmit_queue
    /\ IsPrefix(xmit_events, device_out)
    /\ Len(device_out) <= Len(xmit_events) + 1
    /\ xmit_pc = "notify" =>
         /\ Len(device_out) = Len(xmit_events) + 1
         /\ xmit_data = device_out[Len(device_out)]

\* two different buffers have been written and notified, in the order sent
C8_Witness ==
    /\ Len(xmit_events) = 2
    /\ device_out[1] # device_out[2]
    /\ device_out = sent

\* the i-th buffer queued has been written and notified
Transmitted(i) ==
    /\ Len(device_out) >= i /\ device_out[i] = sent[i]
    /\ Len(xmit_events) >= i /\ xmit_events[i] = sent[i]

CallsOf(event) == {i \in 1..Len(loop_log) : loop_log[i].event = event}

\* C10: CommLoop.send raises on_xmit and then on_recv with the data it was
\* called with: every call of an on_xmit handler is before every call of an
\* on_recv handler, and both events have been raised when send returns.
C10_LoopbackXmitThenRecv ==
    /\ IsPrefix(loop_fired, <<"on_xmit", "on_recv">>)
    /\ \A i \in 1..Len(loop_log) :
         /\ loop_log[i].data = loop_data
         /\ \E k \in 1..Len(loop_fired) : loop_fired[k] = loop_log[i].event
    /\ \A i \in CallsOf("on_xmit"), j \in CallsOf("on_recv") : i < j
    /\ loop_ret = "returned" => loop_fired = <<"on_xmit", "on_recv">>
    /\ loop_pc = "dispatch" => loop_fired # <<>>

\* send(b'hi') has returned after calling an on_xmit and an on_recv handler
C10_Witness ==
    /\ loop_ret = "returned" /\ loop_pc = "idle"
    /\ loop_data = Some(<<"h", "i">>)
    /\ CallsOf("on_xmit") # {} /\ CallsOf("on_recv") # {}

\* C11: for a line that decodes, the broker calls its subscriber exactly once,
\* with the transport the line came from (the radio) and the decoded message.
C11_DeliveryCarriesTransport ==
    (recv_pc = "yield" /\ Unpacked[Some(recv_data)].kind = "msg") =>
        /\ Len(delivered) = 1
        /\ delivered[1].msg = Unpacked[Some(recv_data)].msg
        /\ delivered[1].source = "RadioComm"

\* C12: publish hands the packed frame to the transport's send once, and its
\* caller gets what send returned.
C12_PublishReturnsSendResult ==
    published.ret # "none" =>
        /\ published.send_ret \in {"True", "False"}
        /\ published.ret = published.send_ret

\* C13: CommLoop.send with an empty or absent payload returns False, raises
\* neither on_xmit nor on_recv and calls no handler.
C13_EmptySendIsNoOp ==
    (~loop_data.present \/ Len(loop_data.val) = 0) =>
        /\ loop_pc = "idle"
        /\ loop_fired = <<>>
        /\ loop_log = <<>>
        /\ loop_ret \in {"none", "False"}

\* a call of close() has returned
CloseReturned == (close_calls >= 1 /\ close_pc = "closed") \/ close_calls >= 2

\* C14: a close() called after a close() has returned changes nothing of the
\* transport (the stop flag, the port, the worker threads, the lock, what was
\* written and notified), does no device I/O, and returns.
C14_CloseIsIdempotent ==
    /\ [][CloseReturned =>
            UNCHANGED <<workers_active, comm_open, comm_lock, xmit_pc, recv_pc,
                        xmit_exc, recv_exc, device_out, xmit_events, delivered>>]_vars
    /\ (close_calls >= 2) ~> (close_pc = "closed")

\* the second close() has returned, with a buffer queued after the first
C14_Witness ==
    /\ close_calls = 2 /\ close_pc = "closed"
    /\ ~comm_open /\ ~workers_active
    /\ Len(xmit_queue) > 0

\* C15: unpack(pack(m)) is a message of m's class with m's content, sender
\* and timestamp.
C15_RoundTrip ==
    codec_pc = "done" =>
        /\ codec_unpacked.kind = "msg"
        /\ codec_unpacked.msg.variant = codec_msg.variant
        /\ codec_unpacked.msg.content = codec_msg.content
        /\ codec_unpacked.msg.sender = codec_msg.sender
        /\ codec_unpacked.msg.timestamp = codec_msg.timestamp

\* the checksum pack computes over the fields of a frame
FieldsChecksum(line) ==
    LET match == packed_msg_match(line)
    IN  checksum(<<Some(OrEmpty(match.sender)), Some(OrEmpty(match.time)),
                   Some(match.msg), Some(OrEmpty(match.sig))>>)

\* the decodable lines whose embedded checksum is not the checksum of their fields
MismatchedLines ==
    {line \in GoodLines : HexVal(packed_msg_match(line).crc) # FieldsChecksum(line)}

\* the message is marked as failing its integrity check
Flagged(msg) == is_valid(msg).present /\ ~is_valid(msg).val

\* C16: a line whose embedded checksum differs from the checksum of its fields
\* is delivered as no message, or as a message flagged as mismatched.
C16_ChecksumMismatchNotAccepted ==
    (recv_pc = "yield" /\ recv_data \in MismatchedLines) =>
        \A i \in 1..Len(delivered) : Flagged(delivered[i].msg)

\* the parts that are present, one after the other
RECURSIVE Concat(_)
Concat(parts) ==
    IF Len(parts) = 0 THEN <<>> ELSE OrEmpty(Head(parts)) \o Concat(Tail(parts))

\* the same parts with '' for each one that is absent
AbsentAsEmpty(parts) == [i \in 1..Len(parts) |-> Some(OrEmpty(parts[i]))]

\* C17: checksum(p1, ..., pn) is crc16 of the concatenation of the parts that
\* are present, and an absent part passed as '' gives the same checksum.
C17_ChecksumIsCrcOfConcatenation ==
    crc_pc = "done" =>
        /\ crc_sum = crc16(Concat(crc_parts), CrcInit)
        /\ crc_sum = checksum(AbsentAsEmpty(crc_parts))

\* a sanitized file name: absent, or a string that is not empty, made of
\* alphanumerics and ". - _ space", not beginning or ending with a space, and
\* without ".."
Sanitized(name) ==
    name.present =>
        /\ Len(name.val) > 0
        /\ AllIn(name.val, AlnumChars \cup safe_filename_chars)
        /\ name.val[1] # " " /\ name.val[Len(name.val)] # " "
        /\ \A i \in 1..(Len(name.val) - 1) : SubSeq(name.val, i, i + 1) # <<".", ".">>

\* C18: the file name of a FileMessage is sanitized, when it is constructed
\* and when it comes out of unpack.
C18_FilenameIsSanitized ==
    /\ file_pc \in {"unpack", "done"} => Sanitized(file_msg.filename)
    /\ file_pc = "done" =>
         /\ file_unpacked.kind = "msg"
         /\ Sanitized(file_unpacked.msg.filename)

\* C19: a worker holds comm_lock exactly while it is in its device read or
\* write: not while it runs handlers, idles, or after it has ended, whether it
\* returned or an exception of the device or of a handler ended it; and a lock
\* that is held is always released again.
C19_LockHeldOnlyForIO ==
    /\ [](/\ comm_lock = "xmit" <=> xmit_pc = "write"
          /\ comm_lock = "recv" <=> recv_pc = "read"
          /\ comm_lock \in {"free", "xmit", "recv"})
    /\ (comm_lock # "free") ~> (comm_lock = "free")

\* a failed write has ended the transmit worker, and the receive worker has
\* taken the lock after it and reads
C19_Witness ==
    /\ xmit_pc = "dead" /\ xmit_exc = "SerialException"
    /\ recv_pc = "read" /\ comm_lock = "recv"

\* C20: the transmit worker writes one buffer at a time, sleeps at the end of
\* every iteration, also one in which it wrote, and so has slept since its
\* last write whenever it writes again; while it sleeps it does not hold the
\* lock.
C20_XmitThrottled ==
    /\ [](xmit_pc \in {"lock", "write"} => xmit_slept)
    /\ [](xmit_pc = "sleep" => comm_lock # "xmit")
    /\ [][(xmit_pc' = "check" /\ xmit_pc # "check") => xmit_pc = "sleep"]_vars
    /\ [][device_out' # device_out =>
            /\ device_out' = Append(device_out, xmit_data)
            /\ ~xmit_slept']_vars

\* after its second write the transmit worker sleeps, and the receive worker
\* holds the lock
C20_Witness ==
    /\ Len(device_out) = 2 /\ xmit_pc = "sleep" /\ ~xmit_slept
    /\ comm_lock = "recv"

\* Event.__call__ has come to the end of the list it runs over
DispatchOver ==
    loop_pc = "dispatch" /\ loop_idx > Len(LoopHandlers(SendOrder[loop_ev]))

\* how often handler h is on the list s
Occurrences(s, h) == Cardinality({i \in 1..Len(s) : s[i] = h})

\* how often the current send has called handler h for the event
CallsTo(event, h) ==
    Cardinality({i \in CallsOf(event) : loop_log[i].handler = h})

\* C21: when the dispatch of an event is over, every handler that was on the
\* event when it was raised and was not itself unsubscribed meanwhile has been
\* called exactly once for each time it was on it, whatever was subscribed or
\* unsubscribed during the dispatch.
C21_DispatchCallsEverySubscriber ==
    DispatchOver =>
        \A i \in 1..Len(loop_snapshot) :
            loop_snapshot[i] \notin loop_unsubscribed =>
                CallsTo(SendOrder[loop_ev], loop_snapshot[i])
                    = Occurrences(loop_snapshot, loop_snapshot[i])

====
